---- MODULE Spec2Model ----
(***************************************************************************)
(* Model of src/parser.py: the AIDE report parser (aideJson), the string   *)
(* truncation helper (truncateString) and the workflow (mainWorkflow,      *)
(* configExist, aideCheck, aideUpdate).                                     *)
(*                                                                         *)
(* Text is modelled at character level: a line is a string, inspected      *)
(* with Len, SubSeq and \o exactly as the Python code inspects it with     *)
(* startswith, `in`, strip, re.search, re.match, split and slicing.        *)
(* The line terminator that readlines() keeps is white space: strip()      *)
(* removes it and no literal the code looks for contains it, so the lines  *)
(* of the model are written without it.                                    *)
(***************************************************************************)
EXTENDS Integers, Sequences, FiniteSets, TLC

(***************************************************************************)
(* Program constants (src/parser.py lines 11-16).                          *)
(***************************************************************************)
AIDE_DB_SRC  == "/var/lib/aide/aide.db.new.gz"
AIDE_DB_DST  == "/var/lib/aide/aide.db.gz"
AIDE_LOG_SRC == "/var/log/aide/aide.log"
AIDE_LOG_TMP == "/var/log/aide/aide_temp.json"
AIDE_LOG_DST == "/var/log/aide/aide.json"
MAX_LENGTH   == 100

(***************************************************************************)
(* Bounds of the model.                                                    *)
(***************************************************************************)
MaxBody == 3

MaxFrameBody == 1

MaxStr == 8

MaxM == 6

(***************************************************************************)
(* Python string primitives.                                               *)
(***************************************************************************)
Char(s, k) == SubSeq(s, k, k)

Min(a, b) == IF a <= b THEN a ELSE b

Max(a, b) == IF a >= b THEN a ELSE b

\* str.startswith(p)
StartsWith(s, p) == Len(s) >= Len(p) /\ SubSeq(s, 1, Len(p)) = p

\* the positions at which the literal p occurs in s
Occurrences(s, p) == {k \in 1..(Len(s) - Len(p) + 1) : SubSeq(s, k, k + Len(p) - 1) = p}

\* p in s
Contains(s, p) == Occurrences(s, p) # {}

SetMin(S) == CHOOSE m \in S : \A n \in S : m <= n

\* the characters str.strip() removes and the regex class \s accepts
Whitespace == {" ", "\t", "\n", "\r", "\f"}

Digits == {"0", "1", "2", "3", "4", "5", "6", "7", "8", "9"}

\* the regex class [+\-.]
FlagChars == {"+", "-", "."}

RECURSIVE SkipClass(_, _, _)
\* first position >= k of s that holds a character outside class C (Len(s)+1 if none)
SkipClass(s, k, C) ==
  IF k > Len(s) \/ Char(s, k) \notin C THEN k ELSE SkipClass(s, k + 1, C)

RECURSIVE SkipClassBack(_, _, _)
\* last position <= k of s that holds a character outside class C (0 if none)
SkipClassBack(s, k, C) ==
  IF k < 1 \/ Char(s, k) \notin C THEN k ELSE SkipClassBack(s, k - 1, C)

\* str.strip()
Strip(s) == SubSeq(s, SkipClass(s, 1, Whitespace), SkipClassBack(s, Len(s), Whitespace))

\* value[:k] with Python's treatment of a negative bound
SliceTo(s, k) ==
  IF k >= 0 THEN SubSeq(s, 1, Min(k, Len(s)))
            ELSE SubSeq(s, 1, Max(0, Len(s) + k))

DigitVal(c) ==
  CASE c = "0" -> 0 [] c = "1" -> 1 [] c = "2" -> 2 [] c = "3" -> 3 [] c = "4" -> 4
    [] c = "5" -> 5 [] c = "6" -> 6 [] c = "7" -> 7 [] c = "8" -> 8 [] c = "9" -> 9

RECURSIVE ParseInt(_)
\* int(text) for a non-empty run of decimal digits
ParseInt(t) ==
  IF Len(t) = 0 THEN 0
  ELSE 10 * ParseInt(SubSeq(t, 1, Len(t) - 1)) + DigitVal(Char(t, Len(t)))

(***************************************************************************)
(* truncateString (lines 18-26).                                           *)
(***************************************************************************)
\* truncateString without the room for the ellipsis: value[:max_length] + '...'
truncateStringNoReserve(value, max_length) ==
  IF Len(value) > max_length THEN SliceTo(value, max_length) \o "..." ELSE value

truncateString(value, max_length) ==
  IF Len(value) > max_length THEN SliceTo(value, max_length - 3) \o "..." ELSE value

(***************************************************************************)
(* The regular expressions of aideJson.                                    *)
(***************************************************************************)
\* start positions k of "<label>:" followed by \s+ and \d+  (line 116)
SummaryHits(label, s) ==
  {k \in Occurrences(s, label \o ":") :
     LET a == k + Len(label) + 1
         b == SkipClass(s, a, Whitespace)
     IN b > a /\ b <= Len(s) /\ Char(s, b) \in Digits}

\* group(1) of the leftmost match of re.search(f"\s*{label}:\s+(\d+)", s)
SummaryGroup(label, s) ==
  LET k == SetMin(SummaryHits(label, s))
      b == SkipClass(s, k + Len(label) + 1, Whitespace)
  IN SubSeq(s, b, SkipClass(s, b, Digits) - 1)

\* ":\s*\/" matches at position q of s
ColonSlashAt(s, q) ==
  /\ q <= Len(s)
  /\ Char(s, q) = ":"
  /\ LET r == SkipClass(s, q + 1, Whitespace)
     IN r <= Len(s) /\ Char(s, r) = "/"

\* re.match(r'^\s*[fd](\s+.*|\s*[+\-.]+):\s*\/', s)  (line 133)
EntryMatch(s) ==
  LET p == SkipClass(s, 1, Whitespace)
  IN /\ p <= Len(s)
     /\ Char(s, p) \in {"f", "d"}
     /\ \/ /\ p + 1 <= Len(s)
           /\ Char(s, p + 1) \in Whitespace
           /\ \E q \in (p + 2)..Len(s) : ColonSlashAt(s, q)
        \/ LET a == SkipClass(s, p + 1, Whitespace)
               b == SkipClass(s, a, FlagChars)
           IN b > a /\ ColonSlashAt(s, b)

\* s.split(": ", 1): the model keeps the part after the first delimiter
HasDelimiter(s) == Contains(s, ": ")

SplitTail(s) == SubSeq(s, SetMin(Occurrences(s, ": ")) + 2, Len(s))

(***************************************************************************)
(* aideJson (lines 51-141).                                                *)
(***************************************************************************)
\* the dict built at lines 86-95
InitialData ==
  [timestamp |-> "None", error_severity |-> "LOG", application_name |-> "AIDE",
   backend_type |-> "log_analyzer", added_entries |-> <<>>, removed_entries |-> <<>>,
   changed_entries |-> <<>>, message |-> "AIDE Log Analysis"]

\* summary_patterns (lines 97-102), in the order the dict is iterated
summary_patterns ==
  << <<"Total number of entries", "total_entries">>,
     <<"Added entries", "added_summary">>,
     <<"Removed entries", "removed_summary">>,
     <<"Changed entries", "changed_summary">> >>

\* data[key] = value
DictSet(d, key, value) == [x \in (DOMAIN d) \cup {key} |-> IF x = key THEN value ELSE d[x]]

\* ApplySummary that keeps the value of the first summary line of a label
ApplySummaryKeepFirst(d, stripped_line) ==
  LET hits == {n \in 1..Len(summary_patterns) :
                 SummaryHits(summary_patterns[n][1], stripped_line) # {}}
  IN IF hits = {} \/ summary_patterns[SetMin(hits)][2] \in DOMAIN d THEN d
     ELSE LET n == SetMin(hits)
          IN DictSet(d, summary_patterns[n][2],
                     ParseInt(SummaryGroup(summary_patterns[n][1], stripped_line)))

\* ApplySummary without the break at line 119: every label that matches is recorded
ApplySummaryAllLabels(d, stripped_line) ==
  LET Record(dd, n) ==
        IF SummaryHits(summary_patterns[n][1], stripped_line) = {} THEN dd
        ELSE DictSet(dd, summary_patterns[n][2],
                     ParseInt(SummaryGroup(summary_patterns[n][1], stripped_line)))
  IN Record(Record(Record(Record(d, 1), 2), 3), 4)

\* the for loop at lines 115-119: the first label that matches is recorded
ApplySummary(d, stripped_line) ==
  LET hits == {n \in 1..Len(summary_patterns) :
                 SummaryHits(summary_patterns[n][1], stripped_line) # {}}
  IN IF hits = {} THEN d
     ELSE LET n == SetMin(hits)
          IN DictSet(d, summary_patterns[n][2],
                     ParseInt(SummaryGroup(summary_patterns[n][1], stripped_line)))

\* the state transitions at lines 122-130 ("none" when the line is no transition)
Transition(stripped_line) ==
  IF Contains(stripped_line, "Added entries:") THEN "added"
  ELSE IF Contains(stripped_line, "Removed entries:") THEN "removed"
  ELSE IF Contains(stripped_line, "Changed entries:") THEN "changed"
  ELSE "none"

\* AppendEntry that inserts at the front of the list
AppendEntryFront(d, st, path) ==
  IF st = "added"
    THEN [d EXCEPT !.added_entries = <<truncateString(path, MAX_LENGTH)>> \o @]
  ELSE IF st = "removed"
    THEN [d EXCEPT !.removed_entries = <<truncateString(path, MAX_LENGTH)>> \o @]
  ELSE IF st = "changed"
    THEN [d EXCEPT !.changed_entries = <<truncateString(path, MAX_LENGTH)>> \o @]
  ELSE d

\* lines 135-140: append the truncated path to the list of the current state
AppendEntry(d, st, path) ==
  IF st = "added"
    THEN [d EXCEPT !.added_entries = Append(@, truncateString(path, MAX_LENGTH))]
  ELSE IF st = "removed"
    THEN [d EXCEPT !.removed_entries = Append(@, truncateString(path, MAX_LENGTH))]
  ELSE IF st = "changed"
    THEN [d EXCEPT !.changed_entries = Append(@, truncateString(path, MAX_LENGTH))]
  ELSE d

\* one iteration of the loop at lines 106-140 on the local variables
\* s = [state, data]; exc is the exception that leaves the loop, if any
LoopBody(s, line) ==
  LET stripped_line == Strip(line)
  IN IF Contains(line, "Start timestamp:")
       THEN [state |-> s.state, data |-> [s.data EXCEPT !.timestamp = "now"], exc |-> "none"]
     ELSE LET d1 == ApplySummary(s.data, stripped_line)
              t  == Transition(stripped_line)
          IN IF t # "none"
               THEN [state |-> t, data |-> d1, exc |-> "none"]
             ELSE IF ~EntryMatch(stripped_line)
               THEN [state |-> s.state, data |-> d1, exc |-> "none"]
             ELSE IF ~HasDelimiter(stripped_line)
               THEN [state |-> s.state, data |-> d1, exc |-> "IndexError"]
             ELSE [state |-> s.state,
                   data |-> AppendEntry(d1, s.state, SplitTail(stripped_line)),
                   exc |-> "none"]

\* Accepted without the test of the second line
AcceptedNoBanner(file) ==
  /\ file.status = "ok"
  /\ Len(file.lines) > 0
  /\ StartsWith(file.lines[1], "Start timestamp:")
  /\ StartsWith(file.lines[Len(file.lines)], "End timestamp:")

\* Accepted that looks for the start marker anywhere in the first line
AcceptedContains(file) ==
  /\ file.status = "ok"
  /\ Len(file.lines) > 0
  /\ Contains(file.lines[1], "Start timestamp:")
  /\ StartsWith(file.lines[Len(file.lines)], "End timestamp:")
  /\ ~ \/ Len(file.lines) < 2
       \/ /\ ~Contains(file.lines[2], "AIDE found differences between database and filesystem!!")
          /\ ~Contains(file.lines[2], "AIDE, version")

\* the checks at lines 62-83: TRUE when aideJson goes on to the loop
Accepted(file) ==
  /\ file.status = "ok"
  /\ Len(file.lines) > 0
  /\ StartsWith(file.lines[1], "Start timestamp:")
  /\ StartsWith(file.lines[Len(file.lines)], "End timestamp:")
  /\ ~ \/ Len(file.lines) < 2
       \/ /\ ~Contains(file.lines[2], "AIDE found differences between database and filesystem!!")
          /\ ~Contains(file.lines[2], "AIDE, version")

RECURSIVE RunLoop(_, _, _)
\* the loop at lines 106-140 from line number n on
RunLoop(s, lines, n) ==
  IF n > Len(lines) \/ s.exc # "none" THEN s
  ELSE RunLoop(LoopBody(s, lines[n]), lines, n + 1)

\* aideJson as a function of the file: what it returns (or raises) and the record
aideJsonResult(file) ==
  IF ~Accepted(file) THEN [ret |-> "None", data |-> InitialData]
  ELSE LET s == RunLoop([state |-> "initial", data |-> InitialData, exc |-> "none"],
                        file.lines, 1)
       IN IF s.exc # "none" THEN [ret |-> s.exc, data |-> s.data]
          ELSE [ret |-> "data", data |-> s.data]

(***************************************************************************)
(* Report lines the model draws its inputs from.                           *)
(***************************************************************************)
RECURSIVE Repeat(_, _)
Repeat(s, n) == IF n = 0 THEN "" ELSE s \o Repeat(s, n - 1)

\* a path of 130 characters
LongPath == "/" \o SubSeq(Repeat("0123456789", 13), 1, 129)

FirstLines == {"Start timestamp: 2024-01-01 00:00:00", "AIDE 0.16 Start timestamp: 2024-01-01"}

SecondLines ==
  {"AIDE found differences between database and filesystem!!",
   "AIDE, version 0.16",
   "AIDE found NO differences between database and filesystem. Looks okay!!"}

LastLines ==
  {"End timestamp: 2024-01-01 00:00:01",
   "End timestamp: 2024 Total number of entries: 7",
   "Run time: 0m 1s"}

BodyLines ==
  {"Added entries:",
   "Removed entries:",
   "Changed entries:",
   "  Total number of entries: 42 ",
   "  Removed entries: 0",
   "f++++++++++++++++: /etc/passwd",
   "d =.... mc.. .: /var/log",
   "f >: .: /etc/hosts",
   "f+++:/etc/shadow",
   "f+++: /tmp/Removed entries:",
   "f+++: " \o LongPath,
   "Total number of entries: 9 Start timestamp:",
   "Total number of entries: 5 Added entries: 3",
   "-----------------"}

BodySeqs(n) == UNION {[1..m -> BodyLines] : m \in 0..n}

Frame(f, s, b, l) == <<f, s>> \o b \o <<l>>

\* reports of every framing with a short body, and of the regular framing with
\* bodies of up to MaxBody lines
Reports ==
  {<<>>}
  \cup {<<f>> : f \in FirstLines \cup LastLines}
  \cup {<<f, l>> : f \in FirstLines, l \in LastLines}
  \cup {Frame(f, s, b, l) :
          f \in FirstLines, s \in SecondLines, b \in BodySeqs(MaxFrameBody), l \in LastLines}
  \cup {Frame("Start timestamp: 2024-01-01 00:00:00",
               "AIDE found differences between database and filesystem!!",
               b, "End timestamp: 2024-01-01 00:00:01") : b \in BodySeqs(MaxBody)}

Files ==
  {[status |-> e, lines |-> <<>>] : e \in {"ENOENT", "EACCES"}}
  \cup {[status |-> "ok", lines |-> r] : r \in Reports}

(***************************************************************************)
(* State.                                                                  *)
(***************************************************************************)
VARIABLES
  log_file,   \* aideJson: the file at log_file_path (status, lines readlines() returns)
  pc,         \* aideJson: position, "open", "loop" or "done" ("idle": not called)
  idx,        \* aideJson: number of the line the loop is at
  state,      \* aideJson: local variable state
  data,       \* aideJson: local variable data
  ret,        \* aideJson: outcome, "pending", "None", "data" or "IndexError"
  t_value,    \* truncateString: argument value
  t_max,      \* truncateString: argument max_length
  t_once,     \* truncateString(value, max_length)
  t_twice,    \* truncateString applied to that result again
  t_pc,       \* number of applications made: "call", "once", "twice" ("idle": none asked)
  db_dst,     \* the file at AIDE_DB_DST
  db_src,     \* the file at AIDE_DB_SRC
  log_src,    \* the file at AIDE_LOG_SRC
  log_tmp,    \* the file at AIDE_LOG_TMP
  log_dst,    \* the file at AIDE_LOG_DST
  wpc,        \* mainWorkflow: position of each run
  wdata,      \* mainWorkflow: local variable data of each run
  started,    \* mainWorkflow: the steps each run has started, in order
  outcome,    \* mainWorkflow: how each run ended ("running" until then)
  check_proc, \* aideCheck: the result of subprocess.run(['aide', '--check']) in each run
  update_proc,\* aideUpdate: the result of subprocess.run(['aide', '--update']) in each run
  at_start,   \* the files as they were when the runs began
  fd,         \* mainWorkflow: where the file behind each run's open handle is
              \* ("none": no handle, "tmp", "dst", "unlinked": no name left)
  lock        \* whether an external caller serializes the runs

parserVars == <<log_file, pc, idx, state, data, ret>>

truncVars == <<t_value, t_max, t_once, t_twice, t_pc>>

fileVars == <<db_dst, db_src, log_src, log_tmp, log_dst>>

flowVars ==
  <<fileVars, wpc, wdata, started, outcome, check_proc, update_proc, at_start, fd, lock>>

vars == <<parserVars, truncVars, flowVars>>

lines == log_file.lines

Runs == 1..2

NoFile == [status |-> "ENOENT", lines |-> <<>>]

\* a path at which there is no file
NoDb == [exists |-> FALSE, content |-> ""]

NoRecord == [exists |-> FALSE, content |-> <<>>]

\* no external process has been run
NotRun == [ran |-> FALSE, returncode |-> 0]

Snapshot ==
  [db_dst |-> db_dst, db_src |-> db_src, log_src |-> log_src, log_tmp |-> log_tmp,
   log_dst |-> log_dst]

(***************************************************************************)
(* The parser as a state machine.                                          *)
(***************************************************************************)

\* lines 59-104: read the file, validate it, set up data and state
aideJsonOpen ==
  /\ pc = "open"
  /\ IF Accepted(log_file)
       THEN /\ pc' = "loop"
            /\ idx' = 1
            /\ ret' = ret
       ELSE /\ pc' = "done"
            /\ idx' = idx
            /\ ret' = "None"
  /\ state' = "initial"
  /\ data' = InitialData
  /\ UNCHANGED <<log_file, truncVars, flowVars>>

\* lines 106-141: one iteration of the loop, and the return after the last one
aideJsonLine ==
  /\ pc = "loop"
  /\ LET s == LoopBody([state |-> state, data |-> data], lines[idx])
     IN /\ state' = s.state
        /\ data' = s.data
        /\ IF s.exc # "none"
             THEN pc' = "done" /\ ret' = s.exc /\ idx' = idx
           ELSE IF idx = Len(lines)
             THEN pc' = "done" /\ ret' = "data" /\ idx' = idx
           ELSE pc' = "loop" /\ ret' = ret /\ idx' = idx + 1
  /\ UNCHANGED <<log_file, truncVars, flowVars>>

\* a call of aideJson on a file; truncateString and mainWorkflow are not run
Init ==
  /\ log_file \in Files
  /\ pc = "open"
  /\ idx = 0
  /\ state = "initial"
  /\ data = InitialData
  /\ ret = "pending"
  /\ t_value = ""
  /\ t_max = MAX_LENGTH
  /\ t_once = ""
  /\ t_twice = ""
  /\ t_pc = "idle"
  /\ db_dst = NoDb
  /\ db_src = NoDb
  /\ log_src = NoFile
  /\ log_tmp = NoRecord
  /\ log_dst = NoRecord
  /\ wpc = [r \in Runs |-> "off"]
  /\ wdata = [r \in Runs |-> InitialData]
  /\ started = [r \in Runs |-> <<>>]
  /\ outcome = [r \in Runs |-> "running"]
  /\ check_proc = [r \in Runs |-> NotRun]
  /\ update_proc = [r \in Runs |-> NotRun]
  /\ at_start = Snapshot
  /\ fd = [r \in Runs |-> "none"]
  /\ lock = TRUE

Next == aideJsonOpen \/ aideJsonLine

Spec == Init /\ [][Next]_vars

(***************************************************************************)
(* truncateString applied to bounded inputs, once and then to its result.  *)
(***************************************************************************)
TruncValues ==
  {SubSeq("/etc/cron.d/aide", 1, n) : n \in 0..MaxStr}
  \cup {SubSeq(LongPath, 1, n) : n \in {MAX_LENGTH - 1, MAX_LENGTH, MAX_LENGTH + 1, 130}}

TruncLengths == (0..MaxM) \cup {MAX_LENGTH}

Truncate ==
  /\ t_pc = "call"
  /\ t_once' = truncateString(t_value, t_max)
  /\ t_pc' = "once"
  /\ UNCHANGED <<t_value, t_max, t_twice, parserVars, flowVars>>

TruncateAgain ==
  /\ t_pc = "once"
  /\ t_twice' = truncateString(t_once, t_max)
  /\ t_pc' = "twice"
  /\ UNCHANGED <<t_value, t_max, t_once, parserVars, flowVars>>

\* a call of truncateString; aideJson and mainWorkflow are not run
InitTruncate ==
  /\ t_value \in TruncValues
  /\ t_max \in TruncLengths
  /\ t_once = ""
  /\ t_twice = ""
  /\ t_pc = "call"
  /\ log_file = NoFile
  /\ pc = "idle"
  /\ idx = 0
  /\ state = "initial"
  /\ data = InitialData
  /\ ret = "pending"
  /\ db_dst = NoDb
  /\ db_src = NoDb
  /\ log_src = NoFile
  /\ log_tmp = NoRecord
  /\ log_dst = NoRecord
  /\ wpc = [r \in Runs |-> "off"]
  /\ wdata = [r \in Runs |-> InitialData]
  /\ started = [r \in Runs |-> <<>>]
  /\ outcome = [r \in Runs |-> "running"]
  /\ check_proc = [r \in Runs |-> NotRun]
  /\ update_proc = [r \in Runs |-> NotRun]
  /\ at_start = Snapshot
  /\ fd = [r \in Runs |-> "none"]
  /\ lock = TRUE

NextTruncate == Truncate \/ TruncateAgain

SpecTruncate == InitTruncate /\ [][NextTruncate]_vars

(***************************************************************************)
(* The workflow (lines 38-49 and 143-228).  The two external processes are *)
(* the environment: `aide --check` may leave any report file behind and    *)
(* exit with any code, `aide --update` may or may not leave a new database *)
(* at AIDE_DB_SRC; neither touches the other files of the workflow.        *)
(***************************************************************************)
ExitCodes == {-9, 0, 4, 7, 8, 14}

ScenarioA ==
  <<"Start timestamp: 2024-01-01 00:00:00",
    "AIDE found differences between database and filesystem!!",
    "Added entries:",
    "f++++++++++++++++: /etc/passwd",
    "End timestamp: 2024-01-01 00:00:01">>

FlowReports ==
  {<<>>,
   ScenarioA,
   <<"Start timestamp: 2024-01-01 00:00:00",
     "AIDE found NO differences between database and filesystem. Looks okay!!",
     "End timestamp: 2024-01-01 00:00:01">>,
   <<"Start timestamp: 2024-01-01 00:00:00",
     "AIDE, version 0.16",
     "f+++:/etc/shadow",
     "End timestamp: 2024-01-01 00:00:01">>}

LogFiles ==
  {NoFile, [status |-> "EACCES", lines |-> <<>>]}
  \cup {[status |-> "ok", lines |-> r] : r \in FlowReports}

\* the record an earlier run left behind
OldRecord == [InitialData EXCEPT !.timestamp = "earlier"]

\* the file json.dumps(data, separators=(',', ':')) and '\n' make: one line per
\* element, each the compact JSON text of a dict
RecordFile(d) == [exists |-> TRUE, content |-> <<d>>]

\* os.path.exists
Exists(file) == IF "status" \in DOMAIN file THEN file.status # "ENOENT" ELSE file.exists

\* the order of the steps of mainWorkflow
StepOrder == <<"config", "check", "report", "parse", "publish", "update">>

\* run 1 of mainWorkflow on some files; aideJson and truncateString are not run on
\* their own
InitWorkflow ==
  /\ db_dst \in {NoDb, [exists |-> TRUE, content |-> "baseline"]}
  /\ db_src \in {NoDb, [exists |-> TRUE, content |-> "stale"]}
  /\ log_src \in LogFiles
  /\ log_tmp \in {NoRecord, RecordFile(OldRecord)}
  /\ log_dst \in {NoRecord, RecordFile(OldRecord)}
  /\ wpc = [r \in Runs |-> IF r = 1 THEN "config" ELSE "off"]
  /\ wdata = [r \in Runs |-> InitialData]
  /\ started = [r \in Runs |-> <<>>]
  /\ outcome = [r \in Runs |-> "running"]
  /\ check_proc = [r \in Runs |-> NotRun]
  /\ update_proc = [r \in Runs |-> NotRun]
  /\ at_start = Snapshot
  /\ fd = [r \in Runs |-> "none"]
  /\ lock = TRUE
  /\ log_file = NoFile
  /\ pc = "idle"
  /\ idx = 0
  /\ state = "initial"
  /\ data = InitialData
  /\ ret = "pending"
  /\ t_value = ""
  /\ t_max = MAX_LENGTH
  /\ t_once = ""
  /\ t_twice = ""
  /\ t_pc = "idle"

\* the run goes on to position p
Goto(r, p) == wpc' = [wpc EXCEPT ![r] = p] /\ outcome' = outcome

\* the run ends with outcome o (a return of mainWorkflow, or an exception leaving it)
Finish(r, o) == wpc' = [wpc EXCEPT ![r] = "end"] /\ outcome' = [outcome EXCEPT ![r] = o]

Begin(r, step) == started' = [started EXCEPT ![r] = Append(@, step)]

\* configExist (lines 38-49) and lines 192-194
ConfigExist(r) ==
  /\ wpc[r] = "config"
  /\ Begin(r, "config")
  /\ IF Exists(db_dst) /\ Exists(log_src)
       THEN Goto(r, "check")
       ELSE Finish(r, "ConfigurationMissing")
  /\ UNCHANGED <<fileVars, wdata, check_proc, update_proc, at_start, fd, lock,
                 parserVars, truncVars>>

\* CheckSucceeded that takes exit code 0 (no differences) for a failure
CheckSucceededNonzero(result) == result.ran /\ result.returncode \in 1..7

\* the test at line 152 on the result of the process
CheckSucceeded(result) == result.ran /\ result.returncode \in 0..7

\* aideCheck (lines 143-161) and lines 197-199
AideCheck(r) ==
  /\ wpc[r] = "check"
  /\ Begin(r, "check")
  /\ \E ran \in BOOLEAN, rc \in ExitCodes, report \in LogFiles :
       LET result == IF ran THEN [ran |-> TRUE, returncode |-> rc] ELSE NotRun
       IN /\ check_proc' = [check_proc EXCEPT ![r] = result]
          /\ log_src' = IF ran THEN report ELSE log_src
          /\ IF CheckSucceeded(result)
               THEN Goto(r, "report")
               ELSE Finish(r, "CheckFailed")
  /\ UNCHANGED <<db_dst, db_src, log_tmp, log_dst, wdata, update_proc, at_start,
                 fd, lock, parserVars, truncVars>>

\* lines 202-204
ReportExists(r) ==
  /\ wpc[r] = "report"
  /\ Begin(r, "report")
  /\ IF Exists(log_src)
       THEN Goto(r, "parse")
       ELSE Finish(r, "ReportMissing")
  /\ UNCHANGED <<fileVars, wdata, check_proc, update_proc, at_start, fd, lock,
                 parserVars, truncVars>>

\* Parse with the test for None after the temporary file has been opened
ParseChecksAfterOpen(r) ==
  /\ wpc[r] = "parse"
  /\ Begin(r, "parse")
  /\ LET res == aideJsonResult(log_src)
     IN IF res.ret = "data"
          THEN /\ wdata' = [wdata EXCEPT ![r] = res.data]
               /\ Goto(r, "write")
               /\ log_tmp' = log_tmp
          ELSE /\ wdata' = wdata
               /\ IF res.ret = "None"
                    THEN Finish(r, "MalformedReport") /\ log_tmp' = RecordFile(InitialData)
                    ELSE Finish(r, "Crashed") /\ log_tmp' = log_tmp
  /\ UNCHANGED <<db_dst, db_src, log_src, log_dst, check_proc, update_proc, at_start,
                 fd, lock, parserVars, truncVars>>

\* Parse without the return at line 211: the workflow goes on with data = None
ParseNoReturn(r) ==
  /\ wpc[r] = "parse"
  /\ Begin(r, "parse")
  /\ LET res == aideJsonResult(log_src)
     IN IF res.ret \in {"data", "None"}
          THEN /\ wdata' = [wdata EXCEPT ![r] = res.data]
               /\ Goto(r, "write")
          ELSE /\ wdata' = wdata
               /\ Finish(r, "Crashed")
  /\ UNCHANGED <<fileVars, check_proc, update_proc, at_start, fd, lock, parserVars, truncVars>>

\* lines 207-211: aideJson(AIDE_LOG_SRC); an IndexError leaves mainWorkflow
Parse(r) ==
  /\ wpc[r] = "parse"
  /\ Begin(r, "parse")
  /\ LET res == aideJsonResult(log_src)
     IN IF res.ret = "data"
          THEN /\ wdata' = [wdata EXCEPT ![r] = res.data]
               /\ Goto(r, "write")
          ELSE /\ wdata' = wdata
               /\ IF res.ret = "None"
                    THEN Finish(r, "MalformedReport")
                    ELSE Finish(r, "Crashed")
  /\ UNCHANGED <<fileVars, check_proc, update_proc, at_start, fd, lock, parserVars, truncVars>>

\* line 213: open(AIDE_LOG_TMP, 'w') creates or truncates the file, or raises; the
\* handle stays with the file it opened, whatever name that file has later
WriteOpen(r) ==
  /\ wpc[r] = "write"
  /\ Begin(r, "publish")
  /\ \E opened \in BOOLEAN :
       IF opened
         THEN /\ log_tmp' = [exists |-> TRUE, content |-> <<>>]
              /\ fd' = [fd EXCEPT ![r] = "tmp"]
              /\ Goto(r, "close")
         ELSE /\ log_tmp' = log_tmp
              /\ fd' = fd
              /\ Finish(r, "Crashed")
  /\ UNCHANGED <<db_dst, db_src, log_src, log_dst, wdata, check_proc, update_proc,
                 at_start, lock, parserVars, truncVars>>

\* lines 214-215 and the end of the with block, with no flush: the text is lost
WriteCloseNoFlush(r) ==
  /\ wpc[r] = "close"
  /\ fd' = [fd EXCEPT ![r] = "none"]
  /\ Goto(r, "published")
  /\ UNCHANGED <<fileVars, wdata, started, check_proc, update_proc, at_start, lock,
                 parserVars, truncVars>>

\* lines 214-215 and the end of the with block: the buffered text is written from
\* offset 0 into the file behind the handle and the handle is closed (the records
\* of the runs have one length, so a second writer's text replaces the first's)
WriteClose(r) ==
  /\ wpc[r] = "close"
  /\ log_tmp' = IF fd[r] = "tmp" THEN RecordFile(wdata[r]) ELSE log_tmp
  /\ log_dst' = IF fd[r] = "dst" THEN RecordFile(wdata[r]) ELSE log_dst
  /\ fd' = [fd EXCEPT ![r] = "none"]
  /\ Goto(r, "published")
  /\ UNCHANGED <<db_dst, db_src, log_src, wdata, started, check_proc, update_proc,
                 at_start, lock, parserVars, truncVars>>

\* line 217, 219-221
PublishExists(r) ==
  /\ wpc[r] = "published"
  /\ IF Exists(log_tmp)
       THEN Goto(r, "rename")
       ELSE Finish(r, "PublishFailed")
  /\ UNCHANGED <<fileVars, wdata, started, check_proc, update_proc, at_start,
                 fd, lock, parserVars, truncVars>>

\* the handles after os.rename(AIDE_LOG_TMP, AIDE_LOG_DST): the file that was at the
\* temporary path is at the destination, the one that was there has no name
Renamed(h) == IF h = "tmp" THEN "dst" ELSE IF h = "dst" THEN "unlinked" ELSE h

\* line 218: os.rename(AIDE_LOG_TMP, AIDE_LOG_DST); a missing source raises
PublishRename(r) ==
  /\ wpc[r] = "rename"
  /\ IF Exists(log_tmp)
       THEN /\ log_dst' = log_tmp
            /\ log_tmp' = NoRecord
            /\ fd' = [q \in Runs |-> Renamed(fd[q])]
            /\ Goto(r, "update")
       ELSE /\ log_dst' = log_dst
            /\ log_tmp' = log_tmp
            /\ fd' = fd
            /\ Finish(r, "Crashed")
  /\ UNCHANGED <<db_dst, db_src, log_src, wdata, started, check_proc, update_proc,
                 at_start, lock, parserVars, truncVars>>

\* line 170: subprocess.run(['aide', '--update']); its exit code is not looked at,
\* a process that cannot be executed raises and aideUpdate returns False (181-183)
AideUpdateRun(r) ==
  /\ wpc[r] = "update"
  /\ Begin(r, "update")
  /\ \E ran \in BOOLEAN, rc \in ExitCodes, produced \in BOOLEAN :
       LET result == IF ran THEN [ran |-> TRUE, returncode |-> rc] ELSE NotRun
       IN /\ update_proc' = [update_proc EXCEPT ![r] = result]
          /\ db_src' = IF ran /\ produced
                         THEN [exists |-> TRUE, content |-> "fresh"]
                         ELSE db_src
          /\ IF ran
               THEN Goto(r, "update_exists")
               ELSE Finish(r, "UpdateFailed")
  /\ UNCHANGED <<db_dst, log_src, log_tmp, log_dst, wdata, check_proc, at_start,
                 fd, lock, parserVars, truncVars>>

\* lines 172, 174-176
UpdateExists(r) ==
  /\ wpc[r] = "update_exists"
  /\ IF Exists(db_src)
       THEN Goto(r, "update_rename")
       ELSE Finish(r, "UpdateFailed")
  /\ UNCHANGED <<fileVars, wdata, started, check_proc, update_proc, at_start,
                 fd, lock, parserVars, truncVars>>

\* UpdateRename that empties the destination before it moves the source
UpdateRenameNonAtomic(r) ==
  /\ wpc[r] = "update_rename"
  /\ \E renamed \in BOOLEAN :
       IF renamed /\ Exists(db_src)
         THEN db_dst' = db_src /\ db_src' = NoDb /\ Finish(r, "Success")
         ELSE db_dst' = NoDb /\ db_src' = db_src /\ Finish(r, "UpdateFailed")
  /\ UNCHANGED <<log_src, log_tmp, log_dst, wdata, started, check_proc, update_proc,
                 at_start, fd, lock, parserVars, truncVars>>

\* lines 173, 178-183 and 224-228: os.rename(AIDE_DB_SRC, AIDE_DB_DST) replaces the
\* baseline, or raises and leaves both files as they were
UpdateRename(r) ==
  /\ wpc[r] = "update_rename"
  /\ \E renamed \in BOOLEAN :
       IF renamed /\ Exists(db_src)
         THEN db_dst' = db_src /\ db_src' = NoDb /\ Finish(r, "Success")
         ELSE db_dst' = db_dst /\ db_src' = db_src /\ Finish(r, "UpdateFailed")
  /\ UNCHANGED <<log_src, log_tmp, log_dst, wdata, started, check_proc, update_proc,
                 at_start, fd, lock, parserVars, truncVars>>

\* mainWorkflow (lines 185-228), one step of run r
mainWorkflow(r) ==
  \/ ConfigExist(r)
  \/ AideCheck(r)
  \/ ReportExists(r)
  \/ Parse(r)
  \/ WriteOpen(r)
  \/ WriteClose(r)
  \/ PublishExists(r)
  \/ PublishRename(r)
  \/ AideUpdateRun(r)
  \/ UpdateExists(r)
  \/ UpdateRename(r)

NextWorkflow == \E r \in Runs : mainWorkflow(r)

SpecWorkflow == InitWorkflow /\ [][NextWorkflow]_vars

(***************************************************************************)
(* Two invocations of the program on the same paths (cron and an operator, *)
(* say), with and without an external caller that serializes them.         *)
(***************************************************************************)
InitConcurrent ==
  /\ db_dst = [exists |-> TRUE, content |-> "baseline"]
  /\ db_src = NoDb
  /\ log_src = [status |-> "ok", lines |-> ScenarioA]
  /\ log_tmp \in {NoRecord, RecordFile(OldRecord)}
  /\ log_dst \in {NoRecord, RecordFile(OldRecord)}
  /\ wpc = [r \in Runs |-> "config"]
  /\ wdata = [r \in Runs |-> InitialData]
  /\ started = [r \in Runs |-> <<>>]
  /\ outcome = [r \in Runs |-> "running"]
  /\ check_proc = [r \in Runs |-> NotRun]
  /\ update_proc = [r \in Runs |-> NotRun]
  /\ at_start = Snapshot
  /\ fd = [r \in Runs |-> "none"]
  /\ lock \in BOOLEAN
  /\ log_file = NoFile
  /\ pc = "idle"
  /\ idx = 0
  /\ state = "initial"
  /\ data = InitialData
  /\ ret = "pending"
  /\ t_value = ""
  /\ t_max = MAX_LENGTH
  /\ t_once = ""
  /\ t_twice = ""
  /\ t_pc = "idle"

\* an invocation takes a step; under the lock it does so only while no other
\* invocation is between its first step and its end
NextConcurrent ==
  \E r \in Runs :
    /\ lock => \A q \in Runs \ {r} : wpc[q] \in {"config", "end", "off"}
    /\ mainWorkflow(r)

SpecConcurrent == InitConcurrent /\ [][NextConcurrent]_vars

(***************************************************************************)
(* Properties of the parser.                                               *)
(***************************************************************************)
Returned == pc = "done" /\ ret = "data"

\* the report has a start or an end marker missing (or is empty)
MarkerMissing ==
  \/ Len(lines) = 0
  \/ ~StartsWith(lines[1], "Start timestamp:")
  \/ ~StartsWith(lines[Len(lines)], "End timestamp:")

\* C1: a report whose first line does not begin with 'Start timestamp:' or whose
\* last line does not begin with 'End timestamp:' (the empty report included)
\* makes aideJson return None: the loop is never entered and no record is returned.
C1_StructuralGate ==
  (pc # "idle" /\ log_file.status = "ok" /\ MarkerMissing)
    => /\ pc \in {"open", "done"}
       /\ ret \in {"pending", "None"}
       /\ pc = "done" => ret = "None"

\* C1 witness: a report with a start marker, a banner and a body but no end marker
\* has been rejected.
C1_Witness ==
  /\ pc = "done" /\ ret = "None" /\ log_file.status = "ok"
  /\ Len(lines) >= 4
  /\ StartsWith(lines[1], "Start timestamp:")
  /\ Contains(lines[2], "AIDE, version")
  /\ ~StartsWith(lines[Len(lines)], "End timestamp:")

\* the section a whole-line header names ("none" for any other line)
HeaderOf(line) ==
  IF Strip(line) = "Added entries:" THEN "added"
  ELSE IF Strip(line) = "Removed entries:" THEN "removed"
  ELSE IF Strip(line) = "Changed entries:" THEN "changed"
  ELSE "none"

\* the section of the whole-line header most recently seen before line n
SectionByHeader(n) ==
  LET H == {m \in 1..(n - 1) : HeaderOf(lines[m]) # "none"}
  IN IF H = {} THEN "initial"
     ELSE HeaderOf(lines[CHOOSE m \in H : \A k \in H : k <= m])

\* the step appends path to the list of section sec and to no other list
AppendedOnlyTo(sec, path) ==
  /\ data'.added_entries =
       IF sec = "added" THEN Append(data.added_entries, path) ELSE data.added_entries
  /\ data'.removed_entries =
       IF sec = "removed" THEN Append(data.removed_entries, path) ELSE data.removed_entries
  /\ data'.changed_entries =
       IF sec = "changed" THEN Append(data.changed_entries, path) ELSE data.changed_entries

\* C2: every line that matches the entry pattern and is read after a whole-line
\* section header has its path appended to the list of the most recent such header,
\* and to that list only.
C2_SectionExclusivity ==
  [][(/\ pc = "loop"
      /\ EntryMatch(Strip(lines[idx]))
      /\ HasDelimiter(Strip(lines[idx]))
      /\ SectionByHeader(idx) # "initial")
       => AppendedOnlyTo(SectionByHeader(idx),
                         truncateString(SplitTail(Strip(lines[idx])), MAX_LENGTH))]_vars

\* C3: a report that passes the structural checks never makes aideJson raise.
C3_NeverRaises == Accepted(log_file) => ret \in {"pending", "data"}

\* line n is skipped by the test at line 110
Skipped(n) == Contains(lines[n], "Start timestamp:")

\* the value of state when line n is read: the last transition before it
SectionBefore(n) ==
  LET H == {m \in 1..(n - 1) : ~Skipped(m) /\ Transition(Strip(lines[m])) # "none"}
  IN IF H = {} THEN "initial"
     ELSE Transition(Strip(lines[CHOOSE m \in H : \A k \in H : k <= m]))

\* the section line n is filed under ("none": the line reaches no append)
FiledUnder(n) ==
  IF ~Skipped(n) /\ Transition(Strip(lines[n])) = "none" /\ EntryMatch(Strip(lines[n]))
    THEN SectionBefore(n)
    ELSE "none"

\* the lines filed under section sec, by increasing line number
FiledLines(sec) == {n \in 1..Len(lines) : FiledUnder(n) = sec}

\* C4: in a returned record each of the three lists holds, for the lines filed under
\* its section and for no others, one entry per line, and the entries are in the
\* order of their lines: the k-th entry is the truncated path of the k-th such line.
C4_OrderPreserved ==
  Returned =>
    \A sec \in {"added", "removed", "changed"} :
      LET list == IF sec = "added" THEN data.added_entries
                  ELSE IF sec = "removed" THEN data.removed_entries
                  ELSE data.changed_entries
          F == FiledLines(sec)
      IN /\ Len(list) = Cardinality(F)
         /\ \A n \in F :
              list[Cardinality({m \in F : m <= n})] =
                truncateString(SplitTail(Strip(lines[n])), MAX_LENGTH)

\* C4 witness: a record with two different entries in one list.
C4_Witness ==
  /\ Returned
  /\ Len(data.added_entries) = 2
  /\ data.added_entries[1] # data.added_entries[2]

\* some label's summary pattern matches the line
SummaryLine(line) ==
  \E n \in 1..Len(summary_patterns) : SummaryHits(summary_patterns[n][1], Strip(line)) # {}

\* C6: processing a line that matches a summary-count pattern leaves the section
\* state as it was.
C6_SummaryKeepsState ==
  [][(pc = "loop" /\ ~Skipped(idx) /\ SummaryLine(lines[idx])) => state' = state]_vars

\* the lines after the second and before the end marker that match label number n
SummaryLinesOf(n) ==
  {m \in 3..(Len(lines) - 1) : SummaryHits(summary_patterns[n][1], Strip(lines[m])) # {}}

\* the record holds, under the key of label n, the integer found in line m
Recorded(n, m) ==
  /\ summary_patterns[n][2] \in DOMAIN data
  /\ data[summary_patterns[n][2]] =
       ParseInt(SummaryGroup(summary_patterns[n][1], Strip(lines[m])))

\* C7 as claimed: the last line between the second line and the end marker that
\* matches the pattern of a label gives the value of that label's field.
C7_SummaryRecorded ==
  Returned =>
    \A n \in 1..Len(summary_patterns) :
      SummaryLinesOf(n) # {} =>
        Recorded(n, CHOOSE m \in SummaryLinesOf(n) : \A k \in SummaryLinesOf(n) : k <= m)

\* C7 amended: a line after the second and before the end marker that does not
\* contain 'Start timestamp:', matches the pattern of a label and of no label
\* earlier in the order total, added, removed, changed, and is followed by no line
\* (the end marker line included) matching that label, gives the value of the
\* label's field (the integer of the leftmost match), in every section state.
C7_SummaryRecordedAmended ==
  Returned =>
    \A n \in 1..Len(summary_patterns) :
      \A m \in SummaryLinesOf(n) :
        (/\ ~Skipped(m)
         /\ \A j \in 1..(n - 1) : m \notin SummaryLinesOf(j)
         /\ \A k \in (m + 1)..Len(lines) :
              SummaryHits(summary_patterns[n][1], Strip(lines[k])) = {})
          => Recorded(n, m)

\* C7 witness: a total read while the section state is "added" is in the record.
C7_Witness ==
  /\ Returned
  /\ Len(lines) >= 5
  /\ lines[3] = "Added entries:"
  /\ lines[4] = "  Total number of entries: 42 "
  /\ data.total_entries = 42

(***************************************************************************)
(* Properties of truncateString.                                           *)
(***************************************************************************)
\* what the claim says of one application with maximum m
TruncatedTo(value, m, result) ==
  /\ Len(value) <= m => result = value
  /\ Len(value) > m =>
       /\ Len(result) = m
       /\ result = SubSeq(value, 1, m - 3) \o "..."

C8_FailFastOrder ==
  \A r \in Runs :
    LET n == Len(started[r])
    IN /\ n <= Len(StepOrder)
       /\ started[r] = SubSeq(StepOrder, 1, n)
       /\ n >= 2 => Exists(at_start.db_dst) /\ Exists(at_start.log_src)
       /\ n >= 3 => check_proc[r].ran /\ check_proc[r].returncode \in 0..7
       /\ n >= 4 => Exists(log_src)
       /\ n >= 5 => /\ aideJsonResult(log_src).ret = "data"
                    /\ wdata[r] = aideJsonResult(log_src).data
       /\ n >= 6 => log_dst = RecordFile(wdata[r])

\* C8 witness: a run has gone through all six steps and ended in success.
C8_Witness == outcome[1] = "Success" /\ started[1] = StepOrder

\* C9: when a run ends without having started the publish step, the destination
\* record file, the temporary record file and the baseline database are as they
\* were when the run began.
C9_AbortLeavesFiles ==
  \A r \in Runs :
    (wpc[r] = "end" /\ Len(started[r]) < 5)
      => /\ log_dst = at_start.log_dst
         /\ log_tmp = at_start.log_tmp
         /\ db_dst = at_start.db_dst

\* C9 witness: a run ended on a malformed report with the record of an earlier run
\* and a baseline in place.
C9_Witness ==
  /\ outcome[1] = "MalformedReport"
  /\ log_dst = RecordFile(OldRecord)
  /\ Exists(db_dst)

\* C10: when a run ends because the update step failed, the record of the run is at
\* the destination path and the baseline database is as it was before the step.
C10_UpdateAbort ==
  \A r \in Runs :
    outcome[r] = "UpdateFailed"
      => /\ log_dst = RecordFile(wdata[r])
         /\ wdata[r].timestamp = "now"
         /\ db_dst = at_start.db_dst

\* C10 witness: the update process ran, left no new database, and the run ended
\* with its record in place of the earlier one and the baseline still there.
C10_Witness ==
  /\ outcome[1] = "UpdateFailed"
  /\ update_proc[1].ran
  /\ ~Exists(db_src)
  /\ Exists(db_dst)
  /\ at_start.log_dst = RecordFile(OldRecord)
  /\ log_dst # at_start.log_dst

\* the external process could not be executed or ended with a code outside 0..7
ProcessFailed(result) == ~result.ran \/ result.returncode < 0 \/ result.returncode > 7

\* C11: a run whose update process failed ends in UpdateFailed with the permanent
\* baseline not replaced, and the rename of the new baseline is reached only when
\* the new baseline file exists; a failed update process never ends in success.
C11_UpdateFailed ==
  \A r \in Runs :
    /\ wpc[r] = "update_rename" => Exists(db_src)
    /\ (wpc[r] = "end" /\ Len(started[r]) = 6 /\ ProcessFailed(update_proc[r]))
         => /\ outcome[r] = "UpdateFailed"
            /\ db_dst = at_start.db_dst

\* C12: the check step succeeds exactly when the process ran and exited with a code
\* in 0..7; otherwise the run ends in CheckFailed having started no later step and
\* written neither record file nor baseline.
C12_CheckExitCodes ==
  \A r \in Runs :
    Len(started[r]) >= 2 /\ wpc[r] # "check"
      => LET ok == check_proc[r].ran /\ check_proc[r].returncode >= 0
                   /\ check_proc[r].returncode <= 7
         IN /\ ok <=> outcome[r] # "CheckFailed"
            /\ ~ok => /\ wpc[r] = "end"
                      /\ started[r] = <<"config", "check">>
                      /\ log_tmp = at_start.log_tmp
                      /\ log_dst = at_start.log_dst
                      /\ db_dst = at_start.db_dst
                      /\ db_src = at_start.db_src

\* C12 witness: the check process exited with code 8 and the run ended in CheckFailed.
C12_Witness ==
  /\ outcome[1] = "CheckFailed"
  /\ check_proc[1].ran
  /\ check_proc[1].returncode = 8

\* the second line is absent or carries neither banner
BannerMissing ==
  \/ Len(lines) < 2
  \/ /\ ~Contains(lines[2], "AIDE found differences between database and filesystem!!")
     /\ ~Contains(lines[2], "AIDE, version")

\* C13: a report of at least one line whose second line is absent or carries neither
\* banner makes aideJson return None, whatever its markers: the loop is never
\* entered and no record is returned.
C13_BannerGate ==
  (pc # "idle" /\ log_file.status = "ok" /\ Len(lines) >= 1 /\ BannerMissing)
    => /\ pc \in {"open", "done"}
       /\ ret \in {"pending", "None"}
       /\ pc = "done" => ret = "None"

\* C13 witness: a report with both markers right and a second line without banner
\* has been rejected.
C13_Witness ==
  /\ pc = "done" /\ ret = "None" /\ log_file.status = "ok"
  /\ Len(lines) >= 3
  /\ StartsWith(lines[1], "Start timestamp:")
  /\ StartsWith(lines[Len(lines)], "End timestamp:")
  /\ BannerMissing

\* the list of section sec in the record
ListOf(sec) ==
  IF sec = "added" THEN data.added_entries
  ELSE IF sec = "removed" THEN data.removed_entries
  ELSE data.changed_entries

\* the lines that match the entry pattern and are read with state sec
EntryLinesIn(sec) ==
  {n \in 1..Len(lines) : ~Skipped(n) /\ EntryMatch(Strip(lines[n])) /\ SectionBefore(n) = sec}

\* C14: for a report that passes the structural checks, aideJson returns a record,
\* and the list of every section in which no line matches the entry pattern is empty.
C14_EmptySections ==
  (pc = "done" /\ Accepted(log_file))
    => \A sec \in {"added", "removed", "changed"} :
         EntryLinesIn(sec) = {} => ret = "data" /\ ListOf(sec) = <<>>

\* the lines, other than those holding 'Start timestamp:', that match label number n
MatchingLines(n) ==
  {m \in 1..Len(lines) :
     ~Skipped(m) /\ SummaryHits(summary_patterns[n][1], Strip(lines[m])) # {}}

\* those of them that match no label earlier in summary_patterns
RecordingLines(n) ==
  {m \in MatchingLines(n) : \A j \in 1..(n - 1) : m \notin MatchingLines(j)}

\* key number n is in the record exactly when L is not empty, and then holds the
\* integer of the last line of L
KeyFollows(n, L) ==
  /\ summary_patterns[n][2] \in DOMAIN data <=> L # {}
  /\ (summary_patterns[n][2] \in DOMAIN data /\ L # {})
       => /\ data[summary_patterns[n][2]] \in Nat
          /\ Recorded(n, CHOOSE m \in L : \A k \in L : k <= m)

\* C15 as claimed: each summary key is in the returned record exactly when some line
\* without 'Start timestamp:' matches the pattern of its label, and then holds the
\* integer of the last such line.
C15_SummaryKeys ==
  Returned => \A n \in 1..Len(summary_patterns) : KeyFollows(n, MatchingLines(n))

\* C15 amended: the same, counting for a label only the lines that match the pattern
\* of no label earlier in the order total, added, removed, changed.
C15_SummaryKeysAmended ==
  Returned => \A n \in 1..Len(summary_patterns) : KeyFollows(n, RecordingLines(n))

\* C15 witness: a record with a total and a removed count and without an added count,
\* from a report one line of which matches both the total and the added pattern.
C15_Witness ==
  /\ Returned
  /\ "total_entries" \in DOMAIN data
  /\ "removed_summary" \in DOMAIN data
  /\ "added_summary" \notin DOMAIN data
  /\ MatchingLines(2) # {}

\* C16: the state changes only on a line that is a whole-line section header; any
\* other line that matches the entry pattern while a section is active is appended
\* to the list of the state it was read in.
C16_HeaderOnlyTransitions ==
  [][(pc = "loop" /\ HeaderOf(lines[idx]) = "none")
       => /\ state' = state
          /\ (/\ state # "initial"
              /\ ~Skipped(idx)
              /\ EntryMatch(Strip(lines[idx]))
              /\ HasDelimiter(Strip(lines[idx])))
               => AppendedOnlyTo(state,
                                 truncateString(SplitTail(Strip(lines[idx])), MAX_LENGTH))]_vars

\* C17: every entry of a returned record is the truncated text after the first ': '
\* of the line it came from, and begins with '/'.
C17_EntriesArePaths ==
  Returned =>
    \A sec \in {"added", "removed", "changed"} :
      \A n \in FiledLines(sec) :
        LET entry == ListOf(sec)[Cardinality({m \in FiledLines(sec) : m <= n})]
        IN /\ entry = truncateString(SplitTail(Strip(lines[n])), MAX_LENGTH)
           /\ StartsWith(entry, "/")

\* C18: while the state is initial, a line that matches the entry pattern leaves the
\* state initial and the three lists as they were.
C18_InitialIgnoresEntries ==
  [][(pc = "loop" /\ state = "initial" /\ ~Skipped(idx) /\ EntryMatch(Strip(lines[idx])))
       => /\ state' = "initial"
          /\ data'.added_entries = data.added_entries
          /\ data'.removed_entries = data.removed_entries
          /\ data'.changed_entries = data.changed_entries]_vars

(***************************************************************************)
(* Properties of two invocations on the same paths.                        *)
(***************************************************************************)
\* the run has renamed its temporary file and is in aideUpdate
Published(r) == wpc[r] \in {"update", "update_exists", "update_rename"}

\* C19: when an external caller lets one workflow run at a time, a run that has
\* published finds at the destination exactly the one-line record it serialized,
\* the temporary path is free again, and no run finds its temporary file missing,
\* neither at the existence test nor at the rename
C19_SingleWriterPublish ==
  lock => \A r \in Runs :
            /\ Published(r) => log_dst = RecordFile(wdata[r]) /\ ~Exists(log_tmp)
            /\ wpc[r] = "rename" => log_tmp = RecordFile(wdata[r])
            /\ outcome[r] # "PublishFailed"

\* two runs with no lock: one run has published, and the destination holds the
\* file the other run had just truncated, the record of neither
C19_Witness ==
  /\ ~lock
  /\ \E r \in Runs :
       /\ Published(r)
       /\ Exists(log_dst)
       /\ \A q \in Runs : log_dst # RecordFile(wdata[q])
       /\ log_dst # at_start.log_dst

\* two runs with no lock: a run is about to rename a temporary file that the other
\* run has already moved
C19_RenameFindsMoved == ~lock /\ \E r \in Runs : wpc[r] = "rename" /\ ~Exists(log_tmp)

\* two runs under the lock, the second after the first
C19_SerializedRuns == lock /\ \A r \in Runs : outcome[r] = "Success"
====
